---------------------------- MODULE Spec2Model ----------------------------
(***************************************************************************)
(* Model of roulette_bot.py: the chip ledger (chips dict + chips.json),    *)
(* the payout rules (evaluate_bet) and the command handlers, which run as  *)
(* asyncio tasks on one event loop and can only be interleaved where they  *)
(* await.                                                                  *)
(*                                                                         *)
(* Strings that the code inspects character by character (bet and amount   *)
(* tokens) are sequences of characters.  The character "SUP2" stands for   *)
(* U+00B2 (superscript two): str.isdigit() is true of it, int() rejects    *)
(* it.  A Python dict is a sequence of <<key, value>> pairs with distinct  *)
(* keys, in insertion order.                                               *)
(***************************************************************************)
EXTENDS Integers, Sequences, FiniteSets, TLC

\* ------------------------------------------------------------------ bounds
\* Number of command / event handler invocations in one behaviour.
MaxCommands == 2
\* Number of writes of the chips file that fail in one behaviour.
MaxFaults == 1

\* ------------------------------------------------------- python primitives
AsciiDigits == {"0", "1", "2", "3", "4", "5", "6", "7", "8", "9"}

\* Characters for which str.isdigit() holds but which int() does not accept.
NonDecimalDigits == {"SUP2"}

Whitespace == {" "}

DigitValue(c) ==
    CASE c = "0" -> 0 [] c = "1" -> 1 [] c = "2" -> 2 [] c = "3" -> 3
      [] c = "4" -> 4 [] c = "5" -> 5 [] c = "6" -> 6 [] c = "7" -> 7
      [] c = "8" -> 8 [] c = "9" -> 9

\* str.lower(), one character
LowerChar(c) ==
    CASE c = "R" -> "r" [] c = "E" -> "e" [] c = "D" -> "d"
      [] c = "O" -> "o" [] c = "L" -> "l" [] c = "W" -> "w"
      [] OTHER -> c

\* str.lower()
Lower(s) == [i \in 1..Len(s) |-> LowerChar(s[i])]

RECURSIVE LStrip(_)
LStrip(s) ==
    IF s # <<>> /\ Head(s) \in Whitespace THEN LStrip(Tail(s)) ELSE s

RECURSIVE RStrip(_)
RStrip(s) ==
    IF s # <<>> /\ s[Len(s)] \in Whitespace
    THEN RStrip(SubSeq(s, 1, Len(s) - 1))
    ELSE s

\* str.strip()
Strip(s) == RStrip(LStrip(s))

\* str.isdigit(): non-empty and every character is a digit character
IsDigit(s) ==
    /\ s # <<>>
    /\ \A i \in 1..Len(s) : s[i] \in AsciiDigits \cup NonDecimalDigits

RECURSIVE DecimalValue(_)
DecimalValue(s) ==
    IF s = <<>> THEN 0
    ELSE 10 * DecimalValue(SubSeq(s, 1, Len(s) - 1)) + DigitValue(s[Len(s)])

\* int(str): surrounding whitespace and one sign are accepted, then decimal
\* digits only; anything else raises ValueError.
PyInt(s) ==
    LET t == Strip(s)
        signed == t # <<>> /\ Head(t) \in {"+", "-"}
        body == IF signed THEN Tail(t) ELSE t
        ok == body # <<>> /\ \A i \in 1..Len(body) : body[i] \in AsciiDigits
    IN  IF ok
        THEN [raised |-> FALSE,
              val |-> IF signed /\ Head(t) = "-"
                      THEN 0 - DecimalValue(body) ELSE DecimalValue(body)]
        ELSE [raised |-> TRUE, val |-> 0]

\* str(user_id)
Str(n) == ToString(n)

\* ------------------------------------------------------------ python dict
DictKeys(d) == {d[i][1] : i \in 1..Len(d)}

\* dict.get(k, default)
DictGet(d, k, default) ==
    IF k \in DictKeys(d)
    THEN LET i == CHOOSE j \in 1..Len(d) : d[j][1] = k IN d[i][2]
    ELSE default

\* d[k] = v
DictSet(d, k, v) ==
    IF k \in DictKeys(d)
    THEN [i \in 1..Len(d) |-> IF d[i][1] = k THEN <<k, v>> ELSE d[i]]
    ELSE Append(d, <<k, v>>)

\* d1 == d2 (dict equality ignores insertion order)
DictEq(d1, d2) ==
    /\ DictKeys(d1) = DictKeys(d2)
    /\ \A k \in DictKeys(d1) : DictGet(d1, k, 0) = DictGet(d2, k, 0)


\* ------------------------------------------------------------------ config
\* user ids (ctx.author.id, member.id)
Users == {1, 2}

\* ------------------------------------------------------- chips file (JSON)
\* The chips file: absent, not parseable as JSON, or a JSON object given by
\* the sequence of its members.
AbsentFile == [kind |-> "absent", members |-> <<>>]
CorruptFile == [kind |-> "corrupt", members |-> <<>>]

\* json.dump(chips, f): one member per dict entry, in dict order
json_dump(d) ==
    [kind |-> "json",
     members |-> [i \in 1..Len(d) |-> [name |-> d[i][1], value |-> d[i][2]]]]

\* json.load(f) of an object: members are inserted in file order
RECURSIVE json_load(_)
json_load(members) ==
    IF members = <<>> THEN <<>>
    ELSE LET m == members[Len(members)]
         IN  DictSet(json_load(SubSeq(members, 1, Len(members) - 1)),
                     m.name, m.value)

\* ---------------------------------------------------- chip storage helpers
\* load_chips(): the new value of the global chips
load_chips(file) ==
    IF file.kind = "json" THEN json_load(file.members) ELSE <<>>

\* How one call of save_chips() can end: the file is rewritten; open() fails
\* and the file is left as it was; open() truncates the file and the write
\* fails, leaving text that is not JSON.  The last two raise OSError.
SaveOutcomes == {"ok", "open_fails", "write_fails"}

save_chips(d, file, outcome) ==
    CASE outcome = "ok" -> [store |-> json_dump(d), raised |-> FALSE]
      [] outcome = "open_fails" -> [store |-> file, raised |-> TRUE]
      [] outcome = "write_fails" -> [store |-> CorruptFile, raised |-> TRUE]

get_balance(d, user_id) == DictGet(d, Str(user_id), 0)

\* the balance is looked up under a key the dict never holds and the floor is
\* missing
ClampedSumWrongKeyNoFloor(old, amount) == amount

\* chips[uid] = chips.get(uid, 0) + amount, floored at 0
ClampedSum(old, amount) == IF old + amount < 0 THEN 0 ELSE old + amount

\* the file is written before the dict is updated
change_balance_saves_first(d, file, user_id, amount, outcome) ==
    LET uid == Str(user_id)
        saved == save_chips(d, file, outcome)
        d2 == DictSet(d, uid, ClampedSum(DictGet(d, uid, 0), amount))
    IN  [chips |-> d2, store |-> saved.store, raised |-> saved.raised]

\* change_balance(user_id, amount): the dict is updated, then saved
change_balance(d, file, user_id, amount, outcome) ==
    LET uid == Str(user_id)
        d2 == DictSet(d, uid, ClampedSum(DictGet(d, uid, 0), amount))
        saved == save_chips(d2, file, outcome)
    IN  [chips |-> d2, store |-> saved.store, raised |-> saved.raised]

\* ----------------------------------------------------------- roulette logic
NUMBERS == 0..36

RED_NUMBERS ==
    {1, 3, 5, 7, 9, 12, 14, 16, 18, 19, 21, 23, 25, 27, 30, 32, 34, 36}

BLACK_NUMBERS == (1..36) \ RED_NUMBERS

\* 0 is not told apart: every number that is not red counts as black
get_color_no_green(number) ==
    IF number \in RED_NUMBERS THEN "red" ELSE "black"

get_color(number) ==
    IF number = 0 THEN "green"
    ELSE IF number \in RED_NUMBERS THEN "red" ELSE "black"

\* bet tokens the code compares against
S_even == <<"e", "v", "e", "n">>
S_odd == <<"o", "d", "d">>
S_red == <<"r", "e", "d">>
S_black == <<"b", "l", "a", "c", "k">>
S_low == <<"l", "o", "w">>
S_high == <<"h", "i", "g", "h">>
S_1st12 == <<"1", "s", "t", "1", "2">>
S_2nd12 == <<"2", "n", "d", "1", "2">>
S_3rd12 == <<"3", "r", "d", "1", "2">>

Returns(v) == [raised |-> FALSE, val |-> v]
ValueError == [raised |-> TRUE, val |-> 0]

\* the branches of evaluate_bet after the straight number bet
NamedBetFactor(number, b) ==
    LET color == get_color(number)
    IN  IF b = S_even THEN (IF number # 0 /\ number % 2 = 0 THEN 2 ELSE 0)
        ELSE IF b = S_odd THEN (IF number # 0 /\ number % 2 = 1 THEN 2 ELSE 0)
        ELSE IF b = S_red THEN (IF color = "red" THEN 2 ELSE 0)
        ELSE IF b = S_black THEN (IF color = "black" THEN 2 ELSE 0)
        ELSE IF b = S_low THEN (IF 1 <= number /\ number <= 18 THEN 2 ELSE 0)
        ELSE IF b = S_high THEN (IF 19 <= number /\ number <= 36 THEN 2 ELSE 0)
        ELSE IF b = S_1st12 THEN (IF 1 <= number /\ number <= 12 THEN 3 ELSE 0)
        ELSE IF b = S_2nd12 THEN (IF 13 <= number /\ number <= 24 THEN 3 ELSE 0)
        ELSE IF b = S_3rd12 THEN (IF 25 <= number /\ number <= 36 THEN 3 ELSE 0)
        ELSE 0

\* evaluate_bet(number, bet): the factor returned, or the ValueError that
\* int(bet) raises
evaluate_bet(number, bet) ==
    LET b == Strip(Lower(bet))
    IN  IF IsDigit(b)
        THEN LET chosen == PyInt(b)
             IN  IF chosen.raised THEN ValueError
                 ELSE IF chosen.val = number THEN Returns(36) ELSE Returns(0)
        ELSE Returns(NamedBetFactor(number, b))


\* the profit (payout - amount) is added to total_payout instead of the payout
RECURSIVE ScoreBetsProfit(_, _)
ScoreBetsProfit(number, bets) ==
    IF bets = <<>>
    THEN [raised |-> FALSE, total_payout |-> 0, payouts |-> <<>>]
    ELSE LET last == bets[Len(bets)]
             before == ScoreBetsProfit(number, SubSeq(bets, 1, Len(bets) - 1))
             factor == evaluate_bet(number, last[2])
             payout == IF factor.val <= 0 THEN 0 ELSE last[1] * factor.val
             profit == IF factor.val <= 0 THEN 0 ELSE payout - last[1]
         IN  IF before.raised \/ factor.raised
             THEN [raised |-> TRUE, total_payout |-> 0, payouts |-> <<>>]
             ELSE [raised |-> FALSE,
                   total_payout |-> before.total_payout + profit,
                   payouts |-> Append(before.payouts, payout)]

\* for amount, bet in bets: factor = evaluate_bet(number, bet); a winning bet
\* adds amount * factor to total_payout and a line to bet_lines.  The loop
\* ends early when evaluate_bet raises.
RECURSIVE ScoreBets(_, _)
ScoreBets(number, bets) ==
    IF bets = <<>>
    THEN [raised |-> FALSE, total_payout |-> 0, payouts |-> <<>>]
    ELSE LET last == bets[Len(bets)]
             before == ScoreBets(number, SubSeq(bets, 1, Len(bets) - 1))
             factor == evaluate_bet(number, last[2])
             payout == IF factor.val <= 0 THEN 0 ELSE last[1] * factor.val
         IN  IF before.raised \/ factor.raised
             THEN [raised |-> TRUE, total_payout |-> 0, payouts |-> <<>>]
             ELSE [raised |-> FALSE,
                   total_payout |-> before.total_payout + payout,
                   payouts |-> Append(before.payouts, payout)]

\* ----------------------------------------------------------- command input
\* amount tokens
A_10 == <<"1", "0">>
A_5 == <<"5">>
A_20 == <<"2", "0">>
A_0 == <<"0">>
A_minus5 == <<"-", "5">>
A_ten == <<"t", "e", "n">>

\* bet tokens
B_17 == <<"1", "7">>
B_0 == <<"0">>
B_sup2 == <<"SUP2">>

\* argument lists of !roulette issued in the model
RouletteArgs ==
    { <<>>,
      <<A_10, S_red, A_5>>,
      <<A_ten, S_red, A_0>>,
      <<A_ten, S_red>>,
      <<A_10, S_red, A_0, S_odd>>,
      <<A_minus5, S_black>>,
      <<A_10, S_red>>,
      <<A_10, S_black>>,
      <<A_10, S_red, A_5, B_17, A_20, S_odd>>,
      <<A_10, S_even, A_10, S_red, A_10, B_0>>,
      <<A_5, B_sup2>> }

\* amounts of !cashout and !addchips issued in the model
CashoutAmounts == {0, 5, 150}
AddchipsAmounts == {0, 5}

\* Where a command is issued: in a direct message (ctx.guild is None), in a
\* guild without a role named Cashier, in a guild that has the role, and in
\* such a guild by an author who holds it.
Contexts == {"dm", "guild_no_role", "guild", "guild_cashier"}

\* the chips file found at startup
InitStores ==
    { AbsentFile,
      CorruptFile,
      json_dump(<< <<"1", 100>> >>),
      json_dump(<< <<"1", 5>>, <<"2", 100>> >>) }

\* a pair whose amount is not a positive integer is skipped (continue) instead
\* of ending the command (return)
RECURSIVE ParsePairsSkipsBadStake(_)
ParsePairsSkipsBadStake(args) ==
    IF args = <<>> THEN [status |-> "ok", bets |-> <<>>]
    ELSE LET amount == PyInt(args[1])
             rest == ParsePairsSkipsBadStake(SubSeq(args, 3, Len(args)))
         IN  IF amount.raised \/ amount.val <= 0 THEN rest
             ELSE [status |-> "ok",
                   bets |-> <<<<amount.val, args[2]>>>> \o rest.bets]

\* Parse pairs (lines 219-243): the bets, or the message of the rejection
RECURSIVE ParsePairs(_)
ParsePairs(args) ==
    IF args = <<>> THEN [status |-> "ok", bets |-> <<>>]
    ELSE LET amount == PyInt(args[1])
             rest == ParsePairs(SubSeq(args, 3, Len(args)))
         IN  IF amount.raised THEN [status |-> "invalid_int", bets |-> <<>>]
             ELSE IF amount.val <= 0
                  THEN [status |-> "nonpositive", bets |-> <<>>]
             ELSE IF rest.status # "ok" THEN rest
             ELSE [status |-> "ok",
                   bets |-> <<<<amount.val, args[2]>>>> \o rest.bets]

ParseArgs(args) ==
    IF Len(args) < 2 \/ Len(args) % 2 # 0
    THEN [status |-> "usage", bets |-> <<>>]
    ELSE ParsePairs(args)

RECURSIVE SumStakes(_)
SumStakes(bets) ==
    IF bets = <<>> THEN 0 ELSE bets[1][1] + SumStakes(Tail(bets))


\* -------------------------------------------------------------------- state
\* handler invocations that can be in progress at once
Tasks == {1, 2}

\* value of running when the event loop is between handlers
NoTask == 0

VARIABLES
    chips,      \* the global dict chips: str(user_id) -> int
    store,      \* the chips file
    task,       \* per task: the handler it runs, its position and its locals
    running,    \* the task that is executing (has not reached an await)
    issued,     \* handler invocations started so far
    faults,     \* writes of the chips file that the disk will still fail
    drift,      \* sum over completed plays of (observed change of the sum of
                \* all balances during the play) - (total_payout - total_stake)
    probe,      \* one call of evaluate_bet: its arguments and what it returned
    peer        \* the dict chips of a second bot process that uses the same
                \* chips file; empty when there is no such process

vars == <<chips, store, task, running, issued, faults, drift, probe, peer>>

NoMsg == [kind |-> "none", a |-> 0, b |-> 0]

Msg(kind, a, b) == [kind |-> kind, a |-> a, b |-> b]

IdleTask ==
    [cmd |-> "none", pc |-> "idle", user |-> 0, ctx |-> "guild",
     bets |-> <<>>, balance |-> 0, total_stake |-> 0, number |-> -1,
     draws |-> 0, total_payout |-> 0, payouts |-> <<>>, amount |-> 0,
     msg |-> NoMsg, error |-> "none", snap |-> <<>>]

\* sum of all balances of a dict
RECURSIVE SumAll(_)
SumAll(d) == IF d = <<>> THEN 0 ELSE d[1][2] + SumAll(Tail(d))

\* handlers are started without waiting for the executing one to await
CanStartAnytime(t) ==
    /\ issued < MaxCommands
    /\ task[t].pc = "idle"
    /\ \A s \in Tasks : s < t => task[s].pc # "idle"

\* A handler is started on the lowest free task while no handler is executing.
CanStart(t) ==
    /\ running = NoTask
    /\ issued < MaxCommands
    /\ task[t].pc = "idle"
    /\ \A s \in Tasks : s < t => task[s].pc # "idle"

\* A save may fail only while the fault budget lasts.
MaySave(outcome) == outcome = "ok" \/ faults > 0

FaultsAfter(outcome) == IF outcome = "ok" THEN faults ELSE faults - 1

\* the handler runs to `await ctx.send(...)` with the message m
AwaitSend(rec, m) == [rec EXCEPT !.pc = "send", !.msg = m]

\* the handler ends with an exception
Raise(rec, error) == [rec EXCEPT !.pc = "raised", !.error = error]

NoProbe == [number |-> 0, bet |-> <<>>, done |-> FALSE, result |-> Returns(0)]

\* no second process
NoPeer == <<>>

\* the state of the bot once load_chips() has read the file
Started(file) ==
    /\ store = file
    /\ chips = load_chips(file)
    /\ task = [t \in Tasks |-> IdleTask]
    /\ running = NoTask
    /\ issued = 0
    /\ drift = 0

\* if __name__ == "__main__": load_chips()
Init ==
    /\ \E file \in InitStores : Started(file)
    /\ faults = MaxFaults
    /\ probe = NoProbe
    /\ peer = NoPeer

\* ------------------------------------------------------------------ events
\* on_ready: load_chips()
on_ready ==
    /\ UNCHANGED <<probe, peer>>
    /\ running = NoTask
    /\ issued < MaxCommands
    /\ chips' = load_chips(store)
    /\ issued' = issued + 1
    /\ UNCHANGED <<store, task, running, faults, drift>>

\* ---------------------------------------------------------------- !balance
\* the balance is read with chips.setdefault(uid, 0), which creates the entry
balance_cmd_setdefault(t, u) ==
    /\ UNCHANGED <<probe, peer>>
    /\ CanStart(t)
    /\ task' = [task EXCEPT ![t] =
            AwaitSend([IdleTask EXCEPT !.cmd = "balance"],
                      Msg("balance", get_balance(chips, u), 0))]
    /\ chips' = IF Str(u) \in DictKeys(chips) THEN chips
                ELSE DictSet(chips, Str(u), 0)
    /\ issued' = issued + 1
    /\ UNCHANGED <<store, running, faults, drift>>

balance_cmd(t, u) ==
    /\ UNCHANGED <<probe, peer>>
    /\ CanStart(t)
    /\ task' = [task EXCEPT ![t] =
            AwaitSend([IdleTask EXCEPT !.cmd = "balance"],
                      Msg("balance", get_balance(chips, u), 0))]
    /\ issued' = issued + 1
    /\ UNCHANGED <<chips, store, running, faults, drift>>

\* --------------------------------------------------------------- !addchips
\* the is_cashier() check of the command
is_cashier(ctx) == ctx = "guild_cashier"

addchips_cmd(t, ctx, member, amount, outcome) ==
    /\ UNCHANGED <<probe, peer>>
    /\ CanStart(t)
    /\ MaySave(outcome)
    /\ issued' = issued + 1
    /\ LET rec == [IdleTask EXCEPT !.cmd = "addchips"]
           r == change_balance(chips, store, member, amount, outcome)
       IN  IF ~is_cashier(ctx)
           THEN /\ task' = [task EXCEPT ![t] =
                        AwaitSend(rec, Msg("not_cashier", 0, 0))]
                /\ UNCHANGED <<chips, store, faults>>
           ELSE IF amount <= 0
           THEN /\ task' = [task EXCEPT ![t] =
                        AwaitSend(rec, Msg("amount_positive", 0, 0))]
                /\ UNCHANGED <<chips, store, faults>>
           ELSE /\ chips' = r.chips
                /\ store' = r.store
                /\ faults' = FaultsAfter(outcome)
                /\ task' = [task EXCEPT ![t] =
                        IF r.raised THEN Raise(rec, "OSError")
                        ELSE AwaitSend(rec, Msg("added", amount,
                                                get_balance(r.chips, member)))]
    /\ UNCHANGED <<running, drift>>


\* --------------------------------------------------------------- !roulette
FundsShortInverted(total_stake, balance) == total_stake < balance

\* line 249: if total_stake > balance
FundsShort(total_stake, balance) == total_stake > balance

\* lines 219-254: usage check, parsing, funds check.  A rejected command awaits
\* the send of its message; an accepted one goes on to the debit without
\* awaiting.
roulette_start(t, u, args) ==
    /\ UNCHANGED <<probe, peer>>
    /\ CanStart(t)
    /\ issued' = issued + 1
    /\ LET parsed == ParseArgs(args)
           balance == get_balance(chips, u)
           total_stake == SumStakes(parsed.bets)
           rec == [IdleTask EXCEPT !.cmd = "roulette"]
       IN  IF parsed.status # "ok"
           THEN /\ task' = [task EXCEPT ![t] =
                        AwaitSend(rec, Msg(parsed.status, 0, 0))]
                /\ UNCHANGED running
           ELSE IF FundsShort(total_stake, balance)
           THEN /\ task' = [task EXCEPT ![t] =
                        AwaitSend(rec, Msg("insufficient", total_stake, balance))]
                /\ UNCHANGED running
           ELSE /\ task' = [task EXCEPT ![t] =
                        [rec EXCEPT !.pc = "debit", !.user = u,
                                    !.bets = parsed.bets,
                                    !.balance = balance,
                                    !.total_stake = total_stake,
                                    !.snap = chips]]
                /\ running' = t
    /\ UNCHANGED <<chips, store, faults, drift>>

\* the debit is followed by an await: the event loop is released
roulette_debit_awaits(t, outcome) ==
    /\ UNCHANGED <<probe, peer>>
    /\ running = t
    /\ task[t].pc = "debit"
    /\ MaySave(outcome)
    /\ LET rec == task[t]
           r == change_balance(chips, store, rec.user, 0 - rec.total_stake,
                               outcome)
       IN  /\ chips' = r.chips
           /\ store' = r.store
           /\ faults' = FaultsAfter(outcome)
           /\ task' = [task EXCEPT ![t] =
                   IF r.raised THEN Raise(rec, "OSError")
                   ELSE [rec EXCEPT !.pc = "spin"]]
           /\ running' = NoTask
    /\ UNCHANGED <<issued, drift>>

\* line 257: change_balance(user_id, -total_stake)
roulette_debit(t, outcome) ==
    /\ UNCHANGED <<probe, peer>>
    /\ running = t
    /\ task[t].pc = "debit"
    /\ MaySave(outcome)
    /\ LET rec == task[t]
           r == change_balance(chips, store, rec.user, 0 - rec.total_stake,
                               outcome)
       IN  /\ chips' = r.chips
           /\ store' = r.store
           /\ faults' = FaultsAfter(outcome)
           /\ IF r.raised
              THEN /\ task' = [task EXCEPT ![t] = Raise(rec, "OSError")]
                   /\ running' = NoTask
              ELSE /\ task' = [task EXCEPT ![t].pc = "spin"]
                   /\ UNCHANGED running
    /\ UNCHANGED <<issued, drift>>

\* spin_wheel(): random.choice(NUMBERS)
spin_wheel(t, number) ==
    /\ UNCHANGED <<probe, peer>>
    /\ running = t
    /\ task[t].pc = "spin"
    /\ task' = [task EXCEPT ![t].pc = "score", ![t].number = number,
                            ![t].draws = @ + 1]
    /\ UNCHANGED <<chips, store, running, issued, faults, drift>>

\* lines 263-280: the loop over the bets
roulette_score(t) ==
    /\ UNCHANGED <<probe, peer>>
    /\ running = t
    /\ task[t].pc = "score"
    /\ LET rec == task[t]
           scored == ScoreBets(rec.number, rec.bets)
       IN  IF scored.raised
           THEN /\ task' = [task EXCEPT ![t] = Raise(rec, "ValueError")]
                /\ running' = NoTask
           ELSE /\ task' = [task EXCEPT ![t].pc = "credit",
                                        ![t].number = -1,
                                        ![t].total_payout = scored.total_payout,
                                        ![t].payouts = scored.payouts]
                /\ UNCHANGED running
    /\ UNCHANGED <<chips, store, issued, faults, drift>>

\* lines 283-304: if total_payout > 0: change_balance(user_id, total_payout);
\* then new_balance, net_result and the message
roulette_credit(t, outcome) ==
    /\ UNCHANGED <<probe, peer>>
    /\ running = t
    /\ task[t].pc = "credit"
    /\ MaySave(outcome)
    /\ LET rec == task[t]
           r == IF rec.total_payout > 0
                THEN change_balance(chips, store, rec.user, rec.total_payout,
                                    outcome)
                ELSE [chips |-> chips, store |-> store, raised |-> FALSE]
           new_balance == get_balance(r.chips, rec.user)
           net_result == rec.total_payout - rec.total_stake
       IN  /\ rec.total_payout > 0 \/ outcome = "ok"
           /\ chips' = r.chips
           /\ store' = r.store
           /\ faults' = IF rec.total_payout > 0 THEN FaultsAfter(outcome)
                        ELSE faults
           /\ IF r.raised
              THEN /\ task' = [task EXCEPT ![t] = Raise(rec, "OSError")]
                   /\ running' = NoTask
              ELSE /\ task' = [task EXCEPT ![t] =
                        [rec EXCEPT !.pc = "report",
                                    !.msg = Msg("settlement", net_result,
                                                new_balance)]]
                   /\ UNCHANGED running
    /\ UNCHANGED <<issued, drift>>

\* line 306: await ctx.send(message); the locals are not used again
roulette_report(t) ==
    /\ UNCHANGED <<probe, peer>>
    /\ running = t
    /\ task[t].pc = "report"
    /\ LET rec == task[t]
       IN  /\ task' = [task EXCEPT ![t] =
                   AwaitSend([IdleTask EXCEPT !.cmd = "roulette"], rec.msg)]
           /\ drift' = drift + (SumAll(chips) - SumAll(rec.snap))
                             - (rec.total_payout - rec.total_stake)
    /\ running' = NoTask
    /\ UNCHANGED <<chips, store, issued, faults>>

\* ---------------------------------------------------------------- !cashout
ExceedsBalanceOrEqual(amount, current_bal) == amount >= current_bal

\* line 332: if amount > current_bal
ExceedsBalance(amount, current_bal) == amount > current_bal

\* lines 325-346, up to the first await
cashout_cmd(t, u, amount, outcome) ==
    /\ UNCHANGED <<probe, peer>>
    /\ CanStart(t)
    /\ MaySave(outcome)
    /\ issued' = issued + 1
    /\ LET rec == [IdleTask EXCEPT !.cmd = "cashout"]
           current_bal == get_balance(chips, u)
           r == change_balance(chips, store, u, 0 - amount, outcome)
       IN  IF amount <= 0
           THEN /\ task' = [task EXCEPT ![t] =
                        AwaitSend(rec, Msg("amount_positive", 0, 0))]
                /\ UNCHANGED <<chips, store, faults>>
           ELSE IF ExceedsBalance(amount, current_bal)
           THEN /\ task' = [task EXCEPT ![t] =
                        AwaitSend(rec, Msg("insufficient", amount, current_bal))]
                /\ UNCHANGED <<chips, store, faults>>
           ELSE /\ chips' = r.chips
                /\ store' = r.store
                /\ faults' = FaultsAfter(outcome)
                /\ task' = [task EXCEPT ![t] =
                        IF r.raised THEN Raise(rec, "OSError")
                        ELSE AwaitSend(rec,
                                       Msg("cashed_out", amount,
                                           get_balance(r.chips, u)))]
    /\ UNCHANGED <<running, drift>>

\* ------------------------------------------------------------- !cashoutall
\* lines 361-376, up to the first await; ctx.guild.roles raises
\* AttributeError in a direct message
cashoutall_cmd(t, u, ctx, outcome) ==
    /\ UNCHANGED <<probe, peer>>
    /\ CanStart(t)
    /\ MaySave(outcome)
    /\ issued' = issued + 1
    /\ LET current_bal == get_balance(chips, u)
           rec == [IdleTask EXCEPT !.cmd = "cashoutall"]
           r == change_balance(chips, store, u, 0 - current_bal, outcome)
       IN  IF current_bal <= 0
           THEN /\ task' = [task EXCEPT ![t] =
                        AwaitSend(rec, Msg("nothing_to_cash_out", 0, 0))]
                /\ UNCHANGED <<chips, store, faults>>
           ELSE /\ chips' = r.chips
                /\ store' = r.store
                /\ faults' = FaultsAfter(outcome)
                /\ task' = [task EXCEPT ![t] =
                        IF r.raised THEN Raise(rec, "OSError")
                        ELSE IF ctx = "dm" THEN Raise(rec, "AttributeError")
                        ELSE AwaitSend([rec EXCEPT !.ctx = ctx],
                                       Msg("cashed_out_all", current_bal, 0))]
    /\ UNCHANGED <<running, drift>>

\* ------------------------------------------------------- after an await
\* The awaited send is done.  After its receipt !cashout looks up the Cashier
\* role of ctx.guild (lines 348-355) and !cashoutall uses the role it looked
\* up before (lines 378-384); every other handler returns.
send_done(t, ctx) ==
    /\ UNCHANGED <<probe, peer>>
    /\ running = NoTask
    /\ task[t].pc = "send"
    /\ LET rec == task[t]
           notify == AwaitSend([rec EXCEPT !.ctx = "guild"],
                               Msg("notify_cashiers", rec.msg.a, rec.msg.b))
       IN  task' = [task EXCEPT ![t] =
               IF rec.msg.kind = "cashed_out"
               THEN IF ctx = "dm" THEN Raise(rec, "AttributeError")
                    ELSE IF ctx = "guild_no_role" THEN IdleTask
                    ELSE notify
               ELSE IF rec.msg.kind = "cashed_out_all" /\ rec.ctx # "guild_no_role"
               THEN notify
               ELSE IdleTask]
    /\ UNCHANGED <<chips, store, running, issued, faults, drift>>

\* the exception of a handler has been reported; its task is gone
handler_failed(t) ==
    /\ UNCHANGED <<probe, peer>>
    /\ running = NoTask
    /\ task[t].pc = "raised"
    /\ task' = [task EXCEPT ![t] = IdleTask]
    /\ UNCHANGED <<chips, store, running, issued, faults, drift>>

\* ------------------------------------------------------------ specification
Next ==
    \/ on_ready
    \/ \E t \in Tasks, u \in Users : balance_cmd(t, u)
    \/ \E t \in Tasks, ctx \in Contexts, member \in Users,
          amount \in AddchipsAmounts, outcome \in SaveOutcomes :
            addchips_cmd(t, ctx, member, amount, outcome)
    \/ \E t \in Tasks, u \in Users, args \in RouletteArgs :
            roulette_start(t, u, args)
    \/ \E t \in Tasks, outcome \in SaveOutcomes : roulette_debit(t, outcome)
    \/ \E t \in Tasks, number \in NUMBERS : spin_wheel(t, number)
    \/ \E t \in Tasks : roulette_score(t)
    \/ \E t \in Tasks, outcome \in SaveOutcomes : roulette_credit(t, outcome)
    \/ \E t \in Tasks : roulette_report(t)
    \/ \E t \in Tasks, u \in Users, amount \in CashoutAmounts,
          outcome \in SaveOutcomes :
            cashout_cmd(t, u, amount, outcome)
    \/ \E t \in Tasks, u \in Users, ctx \in Contexts \ {"guild_cashier"},
          outcome \in SaveOutcomes :
            cashoutall_cmd(t, u, ctx, outcome)
    \/ \E t \in Tasks, ctx \in Contexts \ {"guild_cashier"} : send_done(t, ctx)
    \/ \E t \in Tasks : handler_failed(t)

Spec == Init /\ [][Next]_vars

\* the bot on a disk whose writes never fail
InitNoFault ==
    /\ \E file \in InitStores : Started(file)
    /\ faults = 0
    /\ probe = NoProbe
    /\ peer = NoPeer

SpecNoFault == InitNoFault /\ [][Next]_vars

\* ----------------------------------------- evaluate_bet as a pure function
B_37 == <<"3", "7">>
B_007 == <<"0", "0", "7">>
B_36 == <<"3", "6">>
B_banana == <<"b", "a", "n", "a", "n", "a">>
B_RED == <<" ", "R", "E", "D", " ">>
B_Odd == <<"O", "d", "d">>
B_red_inner == <<"r", " ", "e", "d">>

\* bet strings evaluate_bet is called with, each with the wager kind it
\* denotes: a straight number (n), one of the nine named bets, or none
ProbeBets ==
    { [bet |-> B_0, kind |-> "straight", n |-> 0],
      [bet |-> B_17, kind |-> "straight", n |-> 17],
      [bet |-> B_36, kind |-> "straight", n |-> 36],
      [bet |-> B_007, kind |-> "straight", n |-> 7],
      [bet |-> S_red, kind |-> "red", n |-> 0],
      [bet |-> B_RED, kind |-> "red", n |-> 0],
      [bet |-> S_black, kind |-> "black", n |-> 0],
      [bet |-> S_even, kind |-> "even", n |-> 0],
      [bet |-> S_odd, kind |-> "odd", n |-> 0],
      [bet |-> B_Odd, kind |-> "odd", n |-> 0],
      [bet |-> S_low, kind |-> "low", n |-> 0],
      [bet |-> S_high, kind |-> "high", n |-> 0],
      [bet |-> S_1st12, kind |-> "1st12", n |-> 0],
      [bet |-> S_2nd12, kind |-> "2nd12", n |-> 0],
      [bet |-> S_3rd12, kind |-> "3rd12", n |-> 0],
      [bet |-> B_37, kind |-> "unrecognized", n |-> 0],
      [bet |-> B_banana, kind |-> "unrecognized", n |-> 0],
      [bet |-> B_red_inner, kind |-> "unrecognized", n |-> 0],
      [bet |-> <<>>, kind |-> "unrecognized", n |-> 0],
      [bet |-> B_sup2, kind |-> "unrecognized", n |-> 0] }

InitEval ==
    /\ Started(AbsentFile)
    /\ faults = 0
    /\ peer = NoPeer
    /\ \E number \in NUMBERS, p \in ProbeBets :
            probe = [NoProbe EXCEPT !.number = number, !.bet = p.bet]

evaluate_probe ==
    /\ ~probe.done
    /\ probe' = [probe EXCEPT !.done = TRUE,
                              !.result = evaluate_bet(probe.number, probe.bet)]
    /\ UNCHANGED <<chips, store, task, running, issued, faults, drift, peer>>

NextEval == evaluate_probe

SpecEval == InitEval /\ [][NextEval]_vars


\* ------------------------------------------- change_balance called directly
\* amounts change_balance is called with
LedgerAmounts == {-150, -5, 5}

InitLedger ==
    /\ \E file \in InitStores : Started(file)
    /\ faults = MaxFaults
    /\ probe = NoProbe
    /\ peer = NoPeer

\* one call change_balance(user_id, amount); probe records whether it raised
\* and the balance of user_id after it
change_balance_call(user_id, amount, outcome) ==
    /\ issued < MaxCommands
    /\ MaySave(outcome)
    /\ LET r == change_balance(chips, store, user_id, amount, outcome)
       IN  /\ chips' = r.chips
           /\ store' = r.store
           /\ probe' = [NoProbe EXCEPT
                           !.done = TRUE,
                           !.result = [raised |-> r.raised,
                                       val |-> get_balance(r.chips, user_id)]]
    /\ faults' = FaultsAfter(outcome)
    /\ issued' = issued + 1
    /\ UNCHANGED <<task, running, drift, peer>>

NextLedger ==
    \E user_id \in Users, amount \in LedgerAmounts, outcome \in SaveOutcomes :
        change_balance_call(user_id, amount, outcome)

SpecLedger == InitLedger /\ [][NextLedger]_vars

\* ------------------------------------------- two processes on one chips file
\* amounts of the commands issued to the second process
PeerAmounts == {5}

\* both processes have started and loaded the same chips file
InitShared ==
    /\ \E file \in InitStores : Started(file) /\ peer = load_chips(file)
    /\ faults = 0
    /\ probe = NoProbe

\* !addchips of a Cashier, handled by the second process
peer_addchips_cmd(member, amount, outcome) ==
    /\ issued < MaxCommands
    /\ MaySave(outcome)
    /\ amount > 0
    /\ LET r == change_balance(peer, store, member, amount, outcome)
       IN  peer' = r.chips /\ store' = r.store
    /\ faults' = FaultsAfter(outcome)
    /\ issued' = issued + 1
    /\ UNCHANGED <<chips, task, running, drift, probe>>

\* !cashout, handled by the second process
peer_cashout_cmd(u, amount, outcome) ==
    /\ issued < MaxCommands
    /\ MaySave(outcome)
    /\ amount > 0
    /\ ~ExceedsBalance(amount, get_balance(peer, u))
    /\ LET r == change_balance(peer, store, u, 0 - amount, outcome)
       IN  peer' = r.chips /\ store' = r.store
    /\ faults' = FaultsAfter(outcome)
    /\ issued' = issued + 1
    /\ UNCHANGED <<chips, task, running, drift, probe>>

NextShared ==
    \/ Next
    \/ \E member \in Users, amount \in PeerAmounts, outcome \in SaveOutcomes :
            peer_addchips_cmd(member, amount, outcome)
    \/ \E u \in Users, amount \in PeerAmounts, outcome \in SaveOutcomes :
            peer_cashout_cmd(u, amount, outcome)

SpecShared == InitShared /\ [][NextShared]_vars


\* ================================================================== claims
\* a play of task t has debited its stake and not yet credited its payout
MidPlay(t) == task[t].pc \in {"spin", "score", "credit"}

\* a handler of task t is suspended at an await
Suspended(t) == task[t].pc = "send"

\* ---------------------------------------------------------------------- C1
\* C1: in every reachable state, also between the stake debit and the payout
\* credit of a play, every balance held in chips is >= 0, and so is what
\* get_balance returns for every account.
C1_BalanceNeverNegative ==
    /\ \A i \in 1..Len(chips) : chips[i][2] >= 0
    /\ \A u \in Users : get_balance(chips, u) >= 0

\* a play has staked the whole balance: the balance is 0 between its debit
\* and its credit
C1_Witness ==
    \E t \in Tasks :
        /\ task[t].pc = "score"
        /\ task[t].total_stake > 0
        /\ task[t].total_stake = task[t].balance
        /\ get_balance(chips, task[t].user) = 0

\* ---------------------------------------------------------------------- C2
\* C2: over the plays that have completed, in any interleaving of the
\* handlers, the change of the balances during the plays adds up to exactly
\* the sum of total_payout - total_stake of those plays.
C2_PlaysNeitherLoseNorDuplicate == drift = 0

\* two plays with a non-zero net result have completed, the second one while
\* the handler of the first was still suspended at its send
C2_Witness ==
    /\ \A t \in Tasks :
        /\ Suspended(t)
        /\ task[t].msg.kind = "settlement"
        /\ task[t].msg.a # 0
    /\ task[1].msg.a > 0
    /\ task[2].msg.a < 0

\* ---------------------------------------------------------------------- C3
\* C3: while a play is between its stake debit and its payout credit, every
\* step is a step of that play: no handler starts (no balance query, play,
\* cashout, cashoutall, addchips or reload), no other handler resumes, and
\* the play's task is the one executing.
C3_PlayStep ==
    \A t \in Tasks :
        MidPlay(t) =>
            /\ running = t
            /\ issued' = issued
            /\ \A s \in Tasks \ {t} : task'[s] = task[s]

C3_PlayIsUninterrupted == [][C3_PlayStep]_vars

\* a play is between debit and credit while another handler is suspended at
\* an await
C3_Witness ==
    \E t \in Tasks, s \in Tasks :
        /\ MidPlay(t)
        /\ task[t].pc = "credit"
        /\ s # t
        /\ Suspended(s)

\* ---------------------------------------------------------------------- C4
\* C4: a !roulette whose bets parse and whose total stake exceeds the balance
\* is rejected with the insufficient-funds message naming the total stake and
\* the balance; no number is drawn and chips and the chips file stay as they
\* were.
C4_RejectStep ==
    \A t \in Tasks, u \in Users, args \in RouletteArgs :
        LET parsed == ParseArgs(args)
            required == SumStakes(parsed.bets)
            available == get_balance(chips, u)
        IN  (/\ roulette_start(t, u, args)
             /\ parsed.status = "ok"
             /\ required > available)
            => /\ chips' = chips
               /\ store' = store
               /\ task'[t].pc = "send"
               /\ task'[t].msg = Msg("insufficient", required, available)
               /\ task'[t].draws = 0
               /\ running' = NoTask

C4_InsufficientFundsRejects == [][C4_RejectStep]_vars

\* balance 5, !roulette 10 black: rejected, required 10, available 5, the
\* balance still 5
C4_Witness ==
    \E t \in Tasks :
        /\ task[t].cmd = "roulette"
        /\ task[t].msg = Msg("insufficient", 10, 5)
        /\ get_balance(chips, 1) = 5
        /\ issued = 1

\* ---------------------------------------------------------------------- C5
\* sum over the wagers of stake * evaluate_bet(number, kind)
RECURSIVE C5_TotalPayout(_, _)
C5_TotalPayout(number, bets) ==
    IF bets = <<>> THEN 0
    ELSE bets[1][1] * evaluate_bet(number, bets[1][2]).val
         + C5_TotalPayout(number, Tail(bets))

\* the scoring of an accepted play yields total_payout = the sum over the
\* wagers of stake * evaluate_bet(drawn number, kind)
C5_ScoreStep ==
    \A t \in Tasks :
        (task[t].pc = "score" /\ task'[t].pc = "credit")
        => task'[t].total_payout = C5_TotalPayout(task[t].number, task[t].bets)

\* when an accepted play has made its settlement message, the balance is the
\* balance before the play - total_stake + total_payout, total_stake is the
\* sum of the stakes, and the message carries net_result = total_payout -
\* total_stake and new_balance = the balance in chips
C5_Settled ==
    \A t \in Tasks :
        task[t].pc = "report" =>
            /\ task[t].total_stake = SumStakes(task[t].bets)
            /\ get_balance(chips, task[t].user)
                 = task[t].balance - task[t].total_stake + task[t].total_payout
            /\ task[t].msg = Msg("settlement",
                                 task[t].total_payout - task[t].total_stake,
                                 get_balance(chips, task[t].user))

\* the credit of a scored play leaves the balance at the balance before the
\* play - total_stake + total_payout, whether or not save_chips raises in it
C5_CreditStep ==
    \A t \in Tasks :
        (task[t].pc = "credit" /\ task'[t].pc # "credit")
        => /\ task'[t].pc \in {"report", "raised"}
           /\ get_balance(chips', task[t].user)
                = task[t].balance - task[t].total_stake + task[t].total_payout

\* C5: every accepted play whose wagers were scored for the drawn number ends
\* with the balance at balanceBefore - totalStake + totalPayout, totalPayout
\* being the sum of stake * factor, and the settlement it reports carries
\* netResult = totalPayout - totalStake and newBalance = the ledger balance.
C5_SettlementArithmetic ==
    /\ []C5_Settled
    /\ [][C5_ScoreStep]_vars
    /\ [][C5_CreditStep]_vars

\* balance 100, wagers (10,red),(5,17),(20,odd), a number paying 180 + 40:
\* total_stake 35, total_payout 220, net result +185, new balance 285
C5_Witness ==
    \E t \in Tasks :
        /\ task[t].pc = "report"
        /\ task[t].bets = <<<<10, S_red>>, <<5, B_17>>, <<20, S_odd>>>>
        /\ task[t].balance = 100
        /\ task[t].total_stake = 35
        /\ task[t].total_payout = 220
        /\ task[t].payouts = <<0, 180, 40>>
        /\ task[t].msg = Msg("settlement", 185, 285)
        /\ get_balance(chips, task[t].user) = 285

\* ---------------------------------------------------------------------- C6
\* the payout table: the factor of a wager kind for an outcome
C6_PayoutTable(number, kind, n) ==
    CASE kind = "straight" -> IF n = number THEN 36 ELSE 0
      [] kind = "red" -> IF number \in RED_NUMBERS THEN 2 ELSE 0
      [] kind = "black" ->
            IF number \in 1..36 /\ number \notin RED_NUMBERS THEN 2 ELSE 0
      [] kind = "even" -> IF number \in {2 * k : k \in 1..18} THEN 2 ELSE 0
      [] kind = "odd" -> IF number \in {2 * k - 1 : k \in 1..18} THEN 2 ELSE 0
      [] kind = "low" -> IF number \in 1..18 THEN 2 ELSE 0
      [] kind = "high" -> IF number \in 19..36 THEN 2 ELSE 0
      [] kind = "1st12" -> IF number \in 1..12 THEN 3 ELSE 0
      [] kind = "2nd12" -> IF number \in 13..24 THEN 3 ELSE 0
      [] kind = "3rd12" -> IF number \in 25..36 THEN 3 ELSE 0
      [] OTHER -> 0

\* C6: whatever evaluate_bet returns for an outcome in 0..36 and a bet is the
\* factor of the payout table for the kind the bet denotes (36 straight, 2
\* colour / parity / low / high, 3 dozen, 0 otherwise), so outcome 0 pays only
\* the straight bet on 0, and the factor is one of 0, 2, 3, 36.
C6_EvaluateMatchesTable ==
    (probe.done /\ ~probe.result.raised) =>
        /\ \A p \in ProbeBets :
              p.bet = probe.bet
              => probe.result.val = C6_PayoutTable(probe.number, p.kind, p.n)
        /\ probe.result.val \in {0, 2, 3, 36}
        /\ (probe.number = 0 /\ probe.result.val # 0) => probe.bet = B_0

\* outcome 0 and the straight bet on 0: factor 36
C6_Witness ==
    /\ probe.done
    /\ probe.number = 0
    /\ probe.bet = B_0
    /\ probe.result = Returns(36)

\* ---------------------------------------------------------------------- C7
\* C7: when save_chips raised inside change_balance, the balance change is not
\* committed: chips and the chips file still hold one agreed mapping once the
\* handler has ended with the OSError.
C7_FailedSaveLeavesLedgerConsistent ==
    \A t \in Tasks :
        (task[t].pc = "raised" /\ task[t].error = "OSError")
        => DictEq(load_chips(store), chips)

\* ---------------------------------------------------------------------- C8
\* C8: whenever no change_balance call is in progress, load_chips() of the
\* chips file yields the mapping that chips holds.
C8_ReloadYieldsMemory == DictEq(load_chips(store), chips)

\* ---------------------------------------------------------------------- C9
\* C9: a !roulette that has debited its stake always goes on to draw, score,
\* credit and send its settlement: its handler never ends with an exception.
C9_DebitedPlaySettles ==
    \A t \in Tasks : task[t].cmd = "roulette" => task[t].pc # "raised"

\* --------------------------------------------------------------------- C10
\* C10: !cashout with amount > 0 is rejected with the insufficient-funds
\* message, chips and the chips file unchanged, when amount exceeds the
\* balance; otherwise the balance becomes the old balance - amount, and the
\* receipt it sends names that amount and that new balance.
C10_CashoutStep ==
    \A t \in Tasks, u \in Users, amount \in CashoutAmounts,
       outcome \in SaveOutcomes :
        LET old == get_balance(chips, u)
        IN  (cashout_cmd(t, u, amount, outcome) /\ amount > 0)
            => IF amount > old
               THEN /\ chips' = chips
                    /\ store' = store
                    /\ task'[t].pc = "send"
                    /\ task'[t].msg = Msg("insufficient", amount, old)
               ELSE /\ get_balance(chips', u) = old - amount
                    /\ task'[t].pc \in {"send", "raised"}
                    /\ task'[t].pc = "send"
                       => task'[t].msg = Msg("cashed_out", amount, old - amount)
                    /\ outcome = "ok" => task'[t].pc = "send"

C10_CashoutDebitsExactly == [][C10_CashoutStep]_vars

\* balance 5: !cashout 150 has been rejected and !cashout 5 has emptied the
\* account
C10_Witness ==
    /\ task[1].msg = Msg("insufficient", 150, 5)
    /\ task[2].msg = Msg("cashed_out", 5, 0)
    /\ get_balance(chips, 1) = 0

\* --------------------------------------------------------------------- C11
\* C11: !cashoutall on a balance b > 0 leaves the balance at 0 and, when the
\* chips file was written, sends the receipt naming b cashed out and the new
\* balance 0; on a balance of 0 it sends the nothing-to-cash-out message and
\* leaves chips and the chips file as they were.
C11_CashoutAllStep ==
    \A t \in Tasks, u \in Users, ctx \in Contexts, outcome \in SaveOutcomes :
        LET b == get_balance(chips, u)
        IN  cashoutall_cmd(t, u, ctx, outcome)
            => IF b > 0
               THEN /\ get_balance(chips', u) = 0
                    /\ outcome = "ok"
                       => /\ task'[t].pc = "send"
                          /\ task'[t].msg = Msg("cashed_out_all", b, 0)
               ELSE /\ chips' = chips
                    /\ store' = store
                    /\ task'[t].pc = "send"
                    /\ task'[t].msg = Msg("nothing_to_cash_out", 0, 0)

C11_CashoutAllDebitsAndReports == [][C11_CashoutAllStep]_vars

\* --------------------------------------------------------------------- C12
\* C12: a balance goes up only by the payout credit of the account's own play
\* or by the !addchips of a positive amount that passed the Cashier check;
\* every other step (a refused !addchips, !cashout, !cashoutall, !balance, a
\* reload) leaves each balance where it was or lower.
C12_IncreaseStep ==
    /\ \A u \in Users :
          get_balance(chips', u) > get_balance(chips, u)
          => \/ \E t \in Tasks, outcome \in SaveOutcomes :
                   /\ roulette_credit(t, outcome)
                   /\ task[t].user = u
                   /\ task[t].total_payout > 0
                   /\ get_balance(chips', u)
                        = get_balance(chips, u) + task[t].total_payout
             \/ \E t \in Tasks, amount \in AddchipsAmounts,
                   outcome \in SaveOutcomes :
                   /\ addchips_cmd(t, "guild_cashier", u, amount, outcome)
                   /\ amount > 0
                   /\ get_balance(chips', u) = get_balance(chips, u) + amount
    /\ \A t \in Tasks, ctx \in Contexts, member \in Users,
          amount \in AddchipsAmounts, outcome \in SaveOutcomes :
          (/\ addchips_cmd(t, ctx, member, amount, outcome)
           /\ (ctx # "guild_cashier" \/ amount <= 0))
          => chips' = chips /\ store' = store

C12_BalanceRisesOnlyByWinOrDeposit == [][C12_IncreaseStep]_vars

\* --------------------------------------------------------------------- C13
\* the token count is odd or below 2
C13_Malformed(args) == Len(args) < 2 \/ Len(args) % 2 = 1

\* some stake token, at any position, is not a positive integer
C13_InvalidStake(args) ==
    \E i \in 1..Len(args) :
        /\ i % 2 = 1
        /\ PyInt(args[i]).raised \/ PyInt(args[i]).val <= 0

\* C13: a !roulette whose token count is odd or below 2 gets the usage
\* message, before any stake is looked at; one with a stake token that is not
\* a positive integer, at any position, gets the stake message; in both cases
\* nothing is debited, no number is drawn and chips and the chips file stay as
\* they were.
C13_RejectStep ==
    \A t \in Tasks, u \in Users, args \in RouletteArgs :
        (/\ roulette_start(t, u, args)
         /\ (C13_Malformed(args) \/ C13_InvalidStake(args)))
        => /\ chips' = chips
           /\ store' = store
           /\ task'[t].pc = "send"
           /\ task'[t].draws = 0
           /\ task'[t].bets = <<>>
           /\ running' = NoTask
           /\ IF C13_Malformed(args)
              THEN task'[t].msg = Msg("usage", 0, 0)
              ELSE task'[t].msg.kind \in {"invalid_int", "nonpositive"}

C13_BadBatchIsRejectedWhole == [][C13_RejectStep]_vars

\* !roulette 10 red 0 odd by a player holding 100: the stake message, the
\* balance still 100
C13_Witness ==
    \E t \in Tasks :
        /\ task[t].cmd = "roulette"
        /\ task[t].pc = "send"
        /\ task[t].msg = Msg("nonpositive", 0, 0)
        /\ chips = << <<"1", 100>> >>
        /\ issued = 1

\* --------------------------------------------------------------------- C14
\* C14: for a bet that is none of the recognized strings (a number 0..36 or
\* one of the nine names), digit strings above 36 included, evaluate_bet
\* returns the factor 0 for every outcome and does not raise.
C14_UnrecognizedAlwaysLoses ==
    probe.done =>
        \A p \in ProbeBets :
            (p.bet = probe.bet /\ p.kind = "unrecognized")
            => probe.result = Returns(0)

\* --------------------------------------------------------------------- C15
\* a play has drawn once when it scores, credits and reports, and not before;
\* a !roulette that was rejected has drawn nothing
C15_Draws ==
    \A t \in Tasks :
        /\ task[t].draws \in {0, 1}
        /\ task[t].pc \in {"score", "credit", "report"} => task[t].draws = 1
        /\ task[t].pc \in {"idle", "debit", "spin", "send"} => task[t].draws = 0

\* an accepted play goes from its debit to its one draw, and from the draw to
\* the scoring of every wager of the batch against the number drawn
C15_PlayStep ==
    \A t \in Tasks :
        /\ (task[t].pc = "debit" /\ task'[t] # task[t])
           => task'[t].pc = "spin"
        /\ (task[t].pc = "spin" /\ task'[t] # task[t])
           => /\ task'[t].pc = "score"
              /\ task'[t].number \in NUMBERS
        /\ (task[t].pc = "score" /\ task'[t] # task[t])
           => /\ task'[t].pc = "credit"
              /\ Len(task'[t].payouts) = Len(task[t].bets)
              /\ \A i \in 1..Len(task[t].bets) :
                    task'[t].payouts[i]
                      = task[t].bets[i][1]
                        * evaluate_bet(task[t].number, task[t].bets[i][2]).val

\* C15: every accepted play draws exactly one number and scores every wager
\* of its batch against that number; a rejected play draws none.
C15_OneDrawForAllWagers == []C15_Draws /\ [][C15_PlayStep]_vars

\* --------------------------------------------------------------------- C16
C16_Max(a, b) == IF a >= b THEN a ELSE b

\* C16: change_balance(user_id, amount) leaves the balance of user_id at
\* max(0, old + amount), an account without entry counting as 0, and every
\* other balance as it was; it raises only when the write of the chips file
\* fails, never because the sum is negative; and when it returns, the chips
\* file holds the whole updated mapping.
C16_AdjustStep ==
    \A user_id \in Users, amount \in LedgerAmounts, outcome \in SaveOutcomes :
        change_balance_call(user_id, amount, outcome)
        => /\ get_balance(chips', user_id)
                = C16_Max(0, get_balance(chips, user_id) + amount)
           /\ probe'.result.val = get_balance(chips', user_id)
           /\ \A v \in Users \ {user_id} :
                 get_balance(chips', v) = get_balance(chips, v)
           /\ probe'.result.raised <=> outcome # "ok"
           /\ ~probe'.result.raised
              => /\ store'.kind = "json"
                 /\ Len(store'.members) = Len(chips')
                 /\ DictEq(load_chips(store'), chips')

C16_AdjustClampsAndPersists == [][C16_AdjustStep]_vars

\* no chips file: change_balance(2, -5) has created the entry of account 2
\* with the balance floored at 0 and has written it
C16_Witness ==
    /\ issued = 1
    /\ probe.done
    /\ probe.result = Returns(0)
    /\ chips = << <<"2", 0>> >>
    /\ store = json_dump(<< <<"2", 0>> >>)

\* --------------------------------------------------------------------- C17
\* C17: !balance reports the balance held for the author, 0 when chips has no
\* entry for the author, and reads only: chips (its entries included) and the
\* chips file are after it what they were before.
C17_BalanceStep ==
    \A t \in Tasks, u \in Users :
        balance_cmd(t, u)
        => /\ chips' = chips
           /\ store' = store
           /\ task'[t].pc = "send"
           /\ task'[t].msg.kind = "balance"
           /\ task'[t].msg.a
                = IF \E i \in 1..Len(chips) : chips[i][1] = Str(u)
                  THEN LET i == CHOOSE j \in 1..Len(chips) : chips[j][1] = Str(u)
                       IN  chips[i][2]
                  ELSE 0

C17_GetBalanceReadsOnly == [][C17_BalanceStep]_vars

\* chips holds account 1 only and account 2 has asked for its balance: the
\* answer is 0 and chips still has no entry for account 2
C17_Witness ==
    \E t \in Tasks :
        /\ task[t].cmd = "balance"
        /\ task[t].msg = Msg("balance", 0, 0)
        /\ chips = << <<"1", 100>> >>
        /\ store = json_dump(chips)

\* --------------------------------------------------------------------- C18
\* C18: every debit a handler makes is applied to a balance that still covers
\* it, so the floor at 0 in change_balance never cuts anything off: the stake
\* debit of a play finds the balance its funds check read, and !cashout and
\* !cashoutall lower the balance by exactly the amount they name.
C18_DebitStep ==
    /\ \A t \in Tasks, outcome \in SaveOutcomes :
          roulette_debit(t, outcome)
          => LET u == task[t].user
             IN  /\ get_balance(chips, u) = task[t].balance
                 /\ get_balance(chips, u) >= task[t].total_stake
                 /\ get_balance(chips', u)
                      = get_balance(chips, u) - task[t].total_stake
    /\ \A t \in Tasks, u \in Users, amount \in CashoutAmounts,
          outcome \in SaveOutcomes :
          (cashout_cmd(t, u, amount, outcome) /\ chips' # chips)
          => /\ get_balance(chips, u) >= amount
             /\ get_balance(chips', u) = get_balance(chips, u) - amount
    /\ \A t \in Tasks, u \in Users, ctx \in Contexts,
          outcome \in SaveOutcomes :
          (cashoutall_cmd(t, u, ctx, outcome) /\ chips' # chips)
          => /\ get_balance(chips, u) > 0
             /\ get_balance(chips', u) = 0
    /\ \A u \in Users :
          get_balance(chips', u) < get_balance(chips, u)
          => \/ \E t \in Tasks, outcome \in SaveOutcomes :
                   roulette_debit(t, outcome) /\ task[t].user = u
             \/ \E t \in Tasks, amount \in CashoutAmounts,
                   outcome \in SaveOutcomes :
                   cashout_cmd(t, u, amount, outcome)
             \/ \E t \in Tasks, ctx \in Contexts, outcome \in SaveOutcomes :
                   cashoutall_cmd(t, u, ctx, outcome)
             \/ on_ready

C18_FloorNeverCutsADebit == [][C18_DebitStep]_vars

\* a play has staked the whole balance of its account, and debited it, while
\* the !cashout of the other account is suspended at its receipt
C18_Witness ==
    \E t \in Tasks, s \in Tasks :
        /\ task[s].pc = "send"
        /\ task[s].msg.kind = "cashed_out"
        /\ task[t].pc = "spin"
        /\ task[t].total_stake > 0
        /\ task[t].total_stake = task[t].balance
        /\ get_balance(chips, task[t].user) = 0

\* --------------------------------------------------------------------- C19
\* the balance the chips file holds for an account
C19_Persisted(file, u) == get_balance(load_chips(file), u)

\* C19: a play, !cashout or !cashoutall of account A, or an !addchips to
\* account A, leaves the balance of every other account B as it was, in chips
\* and in the chips file.
C19_FrameStep ==
    /\ \A t \in Tasks, outcome \in SaveOutcomes :
          (roulette_debit(t, outcome) \/ roulette_credit(t, outcome))
          => \A b \in Users \ {task[t].user} :
                /\ get_balance(chips', b) = get_balance(chips, b)
                /\ C19_Persisted(store', b) = C19_Persisted(store, b)
    /\ \A t \in Tasks, a \in Users, outcome \in SaveOutcomes :
          (\/ \E amount \in CashoutAmounts : cashout_cmd(t, a, amount, outcome)
           \/ \E ctx \in Contexts : cashoutall_cmd(t, a, ctx, outcome)
           \/ \E ctx \in Contexts, amount \in AddchipsAmounts :
                 addchips_cmd(t, ctx, a, amount, outcome))
          => \A b \in Users \ {a} :
                /\ get_balance(chips', b) = get_balance(chips, b)
                /\ C19_Persisted(store', b) = C19_Persisted(store, b)

C19_OnlyTheTargetAccountChanges == [][C19_FrameStep]_vars

\* --------------------------------------------------------------------- C20
\* C20: with two processes on one chips file, every write of the file adds
\* the balance change the writing process has just made to what the file
\* held, for that account, and keeps what the file held for every other
\* account: no change that either process committed is lost or overwritten.
C20_CommitStep ==
    store' # store
    => \A v \in Users :
          C19_Persisted(store', v) - C19_Persisted(store, v)
            = (get_balance(chips', v) - get_balance(chips, v))
              + (get_balance(peer', v) - get_balance(peer, v))

C20_SharedStoreKeepsEveryChange == [][C20_CommitStep]_vars

=============================================================================
